---- MODULE Spec2Model ----
(***************************************************************************)
(* A model of pman's OpenShiftManager (src/pman/openshiftmgr.py): the job  *)
(* manifest built and submitted by schedule_job, the status resolution of  *)
(* get_job_info, the log aggregation of get_job_logs and remove_job, each  *)
(* against a model of the cluster API the manager calls.                   *)
(*                                                                         *)
(* Python values that may be None are modelled as sequences of length at   *)
(* most one: NONE is None and Some(x) is the value x.  Text the code       *)
(* parses or formats character by character (commands, resource values,   *)
(* timestamps) is a sequence of one-character strings; text the code only  *)
(* concatenates (logs, messages) is a TLA+ string.                         *)
(***************************************************************************)
EXTENDS Integers, Sequences, FiniteSets, TLC

VARIABLES
    job,        \* get_job_info: the job object (snapshot) passed in
    info,       \* get_job_info: the JobInfo returned, NONE before the call
    req,        \* schedule_job / remove_job: the arguments of the last call
    outcome,    \* schedule_job / remove_job: how the last call ended
    jobs,       \* the cluster: the names of the jobs that exist in the project
    calls,      \* the cluster: the requests the last call sent, with the answers
    removed,    \* history: the jobs a remove_job call deleted, not created since
    pods,       \* the cluster: the pods, in listing order
    log_job,    \* get_job_logs: the job whose logs are asked for
    log_pc,     \* get_job_logs: position in the method
    pod_names,  \* get_job_logs: the result of get_pod_names_in_job
    log_i,      \* get_job_logs: index of the next pod of the loop
    str_logs,   \* get_job_logs: the accumulated text
    fetched     \* the cluster: what each read_namespaced_pod_log call answered

vars == <<job, info, req, outcome, jobs, calls, removed, pods, log_job, log_pc,
          pod_names, log_i, str_logs, fetched>>

infoVars == <<job, info>>
schedVars == <<req, outcome, jobs, calls, removed>>
logVars == <<pods, log_job, log_pc, pod_names, log_i, str_logs, fetched>>

NONE == <<>>

Some(x) == <<x>>

(***************************************************************************)
(* Bounds of the model.                                                    *)
(***************************************************************************)
MaxConds == 2

MaxCount == 1

MaxPods == 3

(***************************************************************************)
(* Python's truth value of the optional fields get_job_info tests.         *)
(***************************************************************************)
\* TruthyInt with 0 taken as true
TruthyIntNotNone(x) == x # NONE

\* an optional int: None and 0 are false
TruthyInt(x) == x # NONE /\ x[1] # 0

\* an optional list: None and [] are false
TruthyList(x) == x # NONE /\ Len(x[1]) > 0

\* an optional datetime: only None is false
TruthyTime(x) == x # NONE

(***************************************************************************)
(* datetime.isoformat(): YYYY-MM-DDTHH:MM:SS, then .ffffff when the        *)
(* microsecond is not 0, then +HH:MM when the datetime carries a UTC       *)
(* offset (here: UTC itself, as the cluster reports).                      *)
(***************************************************************************)
Digits == <<"0", "1", "2", "3", "4", "5", "6", "7", "8", "9">>

Digit(n) == Digits[n + 1]

RECURSIVE Pad(_, _)
Pad(n, width) ==
    IF width = 0 THEN <<>>
    ELSE Pad(n \div 10, width - 1) \o <<Digit(n % 10)>>

isoformat(t) ==
    Pad(t.year, 4) \o <<"-">> \o Pad(t.month, 2) \o <<"-">> \o Pad(t.day, 2)
    \o <<"T">>
    \o Pad(t.hour, 2) \o <<":">> \o Pad(t.minute, 2) \o <<":">> \o Pad(t.second, 2)
    \o (IF t.microsecond # 0 THEN <<".">> \o Pad(t.microsecond, 6) ELSE <<>>)
    \o (IF t.utc THEN <<"+", "0", "0", ":", "0", "0">> ELSE <<>>)

\* TimeStamp(completion_time.isoformat() if completion_time is not None else '')
TimeStamp(completion_time) ==
    IF completion_time # NONE THEN isoformat(completion_time[1]) ELSE <<>>

(***************************************************************************)
(* ' '.join(command)                                                       *)
(***************************************************************************)
RECURSIVE join(_, _)
join(sep, tokens) ==
    IF tokens = <<>> THEN ""
    ELSE IF Len(tokens) = 1 THEN tokens[1]
    ELSE tokens[1] \o sep \o join(sep, Tail(tokens))

(***************************************************************************)
(* get_job_info                                                            *)
(***************************************************************************)
\* AnySignal with the active count taken as one more signal
AnySignalOrActive(status) ==
    ~(status.conditions = NONE /\ status.failed = NONE
      /\ status.succeeded = NONE /\ status.active = NONE)

\* the guard of the outer if: not (all three are None)
AnySignal(status) ==
    ~(status.conditions = NONE /\ status.failed = NONE /\ status.succeeded = NONE)

\* IsFailed without the test of the status
IsFailedIgnoringStatus(condition) == condition.type = "Failed"

\* the test of the loop body
IsFailed(condition) == condition.type = "Failed" /\ condition.status = "True"

\* FirstFailed without the break: the loop runs on to the last failed condition
LastFailed(conditions) ==
    LET hits == {i \in 1..Len(conditions) : IsFailed(conditions[i])}
    IN IF hits = {} THEN 0 ELSE CHOOSE i \in hits : \A k \in hits : k <= i

\* the for loop with its break: the index of the condition it stops at, 0 if none
RECURSIVE ScanFrom(_, _)
ScanFrom(conditions, i) ==
    IF i > Len(conditions) THEN 0
    ELSE IF IsFailed(conditions[i]) THEN i
    ELSE ScanFrom(conditions, i + 1)

FirstFailed(conditions) == ScanFrom(conditions, 1)

\* ResolveUnfailed with the active count tested before the completion
ResolveActiveFirst(status) ==
    IF TruthyInt(status.active)
    THEN [message |-> "running", status |-> "started"]
    ELSE IF TruthyTime(status.completion_time) /\ TruthyInt(status.succeeded)
    THEN [message |-> "finished", status |-> "finishedSuccessfully"]
    ELSE [message |-> "inactive", status |-> "undefined"]

\* ResolveUnfailed with an active count of 0 taken as running
ResolveActiveNotNone(status) ==
    IF TruthyTime(status.completion_time) /\ TruthyInt(status.succeeded)
    THEN [message |-> "finished", status |-> "finishedSuccessfully"]
    ELSE IF TruthyIntNotNone(status.active)
    THEN [message |-> "running", status |-> "started"]
    ELSE [message |-> "inactive", status |-> "undefined"]

\* the branch taken while status is still notstarted after the loop
ResolveUnfailed(status) ==
    IF TruthyTime(status.completion_time) /\ TruthyInt(status.succeeded)
    THEN [message |-> "finished", status |-> "finishedSuccessfully"]
    ELSE IF TruthyInt(status.active)
    THEN [message |-> "running", status |-> "started"]
    ELSE [message |-> "inactive", status |-> "undefined"]

\* message and status as the method leaves them
Resolve(status) ==
    LET initial == [message |-> "task not available yet", status |-> "notstarted"]
    IN IF AnySignal(status)
       THEN LET hit == IF TruthyList(status.conditions)
                       THEN FirstFailed(status.conditions[1])
                       ELSE 0
                afterLoop ==
                    IF hit # 0
                    THEN [message |-> status.conditions[1][hit].message,
                          status |-> "finishedWithError"]
                    ELSE initial
            IN IF afterLoop.status = "notstarted"
               THEN ResolveUnfailed(status)
               ELSE afterLoop
       ELSE initial

get_job_info(j) ==
    LET r == Resolve(j.status)
    IN [name |-> j.metadata.name,
        image |-> j.spec.template.spec.containers[1].image,
        cmd |-> join(" ", j.spec.template.spec.containers[1].command),
        timestamp |-> TimeStamp(j.status.completion_time),
        message |-> r.message,
        status |-> r.status]

(***************************************************************************)
(* The job objects get_job_info is applied to.                             *)
(***************************************************************************)
RECURSIVE SeqsUpTo(_, _)
SeqsUpTo(S, n) ==
    IF n = 0 THEN {<<>>}
    ELSE LET shorter == SeqsUpTo(S, n - 1)
         IN shorter \cup {Append(s, x) : s \in shorter, x \in S}

Opt(S) == {NONE} \cup {Some(x) : x \in S}

Conditions ==
    [type : {"Failed", "Complete"}, status : {"True", "False"},
     message : {"BackoffLimitExceeded", "DeadlineExceeded"}]

Times ==
    {[year |-> 2020, month |-> 1, day |-> 9, hour |-> 0, minute |-> 0,
      second |-> 5, microsecond |-> 0, utc |-> TRUE],
     [year |-> 2021, month |-> 12, day |-> 31, hour |-> 23, minute |-> 59,
      second |-> 59, microsecond |-> 0, utc |-> FALSE]}

JobStatuses ==
    [conditions : Opt(SeqsUpTo(Conditions, MaxConds)),
     failed : Opt(0..MaxCount),
     succeeded : Opt(0..MaxCount),
     active : Opt(0..MaxCount),
     completion_time : Opt(Times)]

JobObject(status) ==
    [metadata |-> [name |-> "job1"],
     spec |-> [template |-> [spec |-> [containers |->
                 <<[image |-> "fnndsc/pl-simpledsapp",
                    command |-> <<"simpledsapp", "--dir", "a b">>]>>]]],
     status |-> status]

(***************************************************************************)
(* Values of the variables an operation does not use.                      *)
(***************************************************************************)
InfoIdle == job = NONE /\ info = NONE

SchedIdle ==
    req = NONE /\ outcome = NONE /\ jobs = {} /\ calls = <<>> /\ removed = {}

LogIdle ==
    /\ pods = <<>>
    /\ log_job = NONE
    /\ log_pc = "idle"
    /\ pod_names = <<>>
    /\ log_i = 0
    /\ str_logs = ""
    /\ fetched = <<>>

(***************************************************************************)
(* SpecInfo: get_job_info applied to every job object of JobStatuses.      *)
(***************************************************************************)
InitInfo ==
    /\ job \in {Some(JobObject(status)) : status \in JobStatuses}
    /\ info = NONE
    /\ SchedIdle
    /\ LogIdle

GetJobInfo ==
    /\ info = NONE
    /\ info' = Some(get_job_info(job[1]))
    /\ UNCHANGED <<job, schedVars, logVars>>

NextInfo == GetJobInfo

SpecInfo == InitInfo /\ [][NextInfo]_vars

(***************************************************************************)
(* Properties of get_job_info.                                             *)
(***************************************************************************)
Returned == info # NONE

Snapshot == job[1].status

\* the positions of the conditions of type "Failed" with status "True"
FailedTrueAt ==
    IF Snapshot.conditions = NONE THEN {}
    ELSE {i \in 1..Len(Snapshot.conditions[1]) :
            /\ Snapshot.conditions[1][i].type = "Failed"
            /\ Snapshot.conditions[1][i].status = "True"}

Positive(count) == count # NONE /\ count[1] > 0

CompletedWithSuccess ==
    Snapshot.completion_time # NONE /\ Positive(Snapshot.succeeded)

SignalsAbsent ==
    /\ Snapshot.conditions = NONE
    /\ Snapshot.failed = NONE
    /\ Snapshot.succeeded = NONE

DigitValue(c) == CHOOSE d \in 0..9 : Digits[d + 1] = c

RECURSIVE Number(_, _, _)
Number(text, from, to) ==
    IF from > to THEN 0
    ELSE Number(text, from, to - 1) * 10 + DigitValue(text[to])

\* text is an ISO-8601 date and time of t: YYYY-MM-DDTHH:MM:SS and an optional suffix
IsIso8601Of(text, t) ==
    /\ Len(text) >= 19
    /\ text[5] = "-" /\ text[8] = "-" /\ text[11] = "T"
    /\ text[14] = ":" /\ text[17] = ":"
    /\ \A i \in {1, 2, 3, 4, 6, 7, 9, 10, 12, 13, 15, 16, 18, 19} :
         \E d \in 1..10 : Digits[d] = text[i]
    /\ Number(text, 1, 4) = t.year
    /\ Number(text, 6, 7) = t.month
    /\ Number(text, 9, 10) = t.day
    /\ Number(text, 12, 13) = t.hour
    /\ Number(text, 15, 16) = t.minute
    /\ Number(text, 18, 19) = t.second

\* C1: a job with a condition of type "Failed" and status true resolves to
\* FinishedWithError with the message of the first such condition in list
\* order, whatever the succeeded count, the completion time and the active
\* count are.
C1_FailedConditionWins ==
    (Returned /\ FailedTrueAt # {}) =>
        LET first == CHOOSE i \in FailedTrueAt : \A k \in FailedTrueAt : i <= k
        IN /\ info[1].status = "finishedWithError"
           /\ info[1].message = Snapshot.conditions[1][first].message

\* two failed conditions with different messages, success signals present too
C1_Witness ==
    /\ Returned
    /\ Cardinality(FailedTrueAt) = 2
    /\ Snapshot.conditions[1][1].message # Snapshot.conditions[1][2].message
    /\ CompletedWithSuccess
    /\ Positive(Snapshot.active)
    /\ info[1].status = "finishedWithError"

\* C2: a job with no conditions, no failed count and no succeeded count
\* resolves to NotStarted with message "task not available yet", whatever the
\* active count and the completion time are.
C2_AbsentSignalsNotStarted ==
    (Returned /\ SignalsAbsent) =>
        /\ info[1].status = "notstarted"
        /\ info[1].message = "task not available yet"

C2_Witness ==
    /\ Returned
    /\ SignalsAbsent
    /\ Positive(Snapshot.active)
    /\ Snapshot.completion_time # NONE
    /\ info[1].status = "notstarted"

\* C3: a job with a completion time, succeeded count > 0 and no failed
\* condition resolves to FinishedSuccessfully with message "finished", also
\* when the active or the failed count is > 0, and the timestamp returned is
\* the non-empty ISO-8601 form of the completion time.
C3_CompletedIsSuccess ==
    (Returned /\ CompletedWithSuccess /\ FailedTrueAt = {}) =>
        /\ info[1].status = "finishedSuccessfully"
        /\ info[1].message = "finished"
        /\ info[1].timestamp # <<>>
        /\ IsIso8601Of(info[1].timestamp, Snapshot.completion_time[1])

C3_Witness ==
    /\ Returned
    /\ CompletedWithSuccess
    /\ FailedTrueAt = {}
    /\ Positive(Snapshot.active)
    /\ Positive(Snapshot.failed)
    /\ info[1].status = "finishedSuccessfully"
    /\ Len(info[1].timestamp) >= 19

\* C9: when some signal is present, no condition is a failed one and the job
\* is not completed with success, the status is Started with message
\* "running" exactly when the active count is > 0 and otherwise Undefined
\* with message "inactive"; every job resolves to one of the five statuses.
C9_StartedOrUndefined ==
    Returned =>
        /\ info[1].status \in {"notstarted", "started", "finishedSuccessfully",
                               "finishedWithError", "undefined"}
        /\ (~SignalsAbsent /\ FailedTrueAt = {} /\ ~CompletedWithSuccess) =>
             IF Positive(Snapshot.active)
             THEN info[1].status = "started" /\ info[1].message = "running"
             ELSE info[1].status = "undefined" /\ info[1].message = "inactive"

\* an active count of 0 beside a failed condition whose status is not true
C9_Witness ==
    /\ Returned
    /\ ~SignalsAbsent /\ FailedTrueAt = {} /\ ~CompletedWithSuccess
    /\ Snapshot.active = Some(0)
    /\ Snapshot.conditions # NONE
    /\ \E i \in 1..Len(Snapshot.conditions[1]) :
         Snapshot.conditions[1][i].type = "Failed"
    /\ info[1].status = "undefined"

\* C10: FinishedWithError is returned if and only if some condition has type
\* "Failed" and status true, so a failed count > 0 alone gives
\* FinishedSuccessfully, Started or Undefined; NotStarted is returned if and
\* only if conditions, failed count and succeeded count are all absent, so an
\* empty condition list with absent counters gives Started or Undefined.
C10_ErrorOnlyFromCondition ==
    Returned =>
        /\ info[1].status = "finishedWithError" <=> FailedTrueAt # {}
        /\ info[1].status = "notstarted" <=> SignalsAbsent
        /\ (Positive(Snapshot.failed) /\ FailedTrueAt = {}) =>
             info[1].status \in {"finishedSuccessfully", "started", "undefined"}
        /\ (/\ Snapshot.conditions = Some(<<>>)
            /\ Snapshot.failed = NONE
            /\ Snapshot.succeeded = NONE) =>
             info[1].status \in {"started", "undefined"}

\* a failed count > 0, an empty condition list and a failed condition that is
\* not true are all seen without an error status
C10_Witness ==
    /\ Returned
    /\ Snapshot.conditions = Some(<<>>)
    /\ Snapshot.failed = NONE
    /\ Snapshot.succeeded = NONE
    /\ Snapshot.active = NONE
    /\ info[1].status = "undefined"

(***************************************************************************)
(* get_job_logs, get_job_pod_logs, get_pod_log, get_pod_names_in_job       *)
(***************************************************************************)
JobNames == {"job1", "job2"}

PodNames == {"job1-x7k2p", "job1-m4qzt", "job2-c9d8w", "job2-t5r1n"}

\* what read_namespaced_pod_log answers: a log text, or an error
LogAnswers ==
    {[ok |-> FALSE, text |-> ""]}
    \cup {[ok |-> TRUE, text |-> t] : t \in {"", "step 1\n", "done"}}

\* the pod lists of the project: pods of distinct names, each labelled with
\* the job that owns it (label job-name)
PodLists ==
    {l \in SeqsUpTo([name : PodNames, job : JobNames], MaxPods) :
        \A i, k \in 1..Len(l) : l[i].name = l[k].name => i = k}

\* list_namespaced_pod(project, label_selector='job-name=' + job_id), then the
\* loop that collects the names
RECURSIVE get_pod_names_in_job(_, _)
get_pod_names_in_job(items, job_id) ==
    IF items = <<>> THEN <<>>
    ELSE (IF Head(items).job = job_id THEN <<Head(items).name>> ELSE <<>>)
         \o get_pod_names_in_job(Tail(items), job_id)

\* get_pod_log with an empty text in place of the placeholder
get_pod_log_or_empty(name, answer) ==
    IF answer.ok THEN answer.text ELSE ""

\* try: return the log; except: return the placeholder
get_pod_log(name, answer) ==
    IF answer.ok THEN answer.text
    ELSE "Pod " \o name \o " is being created. Logs will appear shortly"

get_job_pod_logs(pod_name, jid, answer) == get_pod_log(pod_name, answer)

\* str_logs += self.get_job_pod_logs(pod_name, name)
Accumulate(logs, piece) == logs \o piece

InitLogs ==
    /\ pods \in PodLists
    /\ log_job = NONE
    /\ log_pc = "idle"
    /\ pod_names = <<>>
    /\ log_i = 0
    /\ str_logs = ""
    /\ fetched = <<>>
    /\ InfoIdle
    /\ SchedIdle

\* get_job_logs up to the loop; the list request succeeds
GetJobLogsList ==
    /\ log_pc = "idle"
    /\ \E name \in JobNames :
         /\ log_job' = Some(name)
         /\ pod_names' = get_pod_names_in_job(pods, name)
    /\ str_logs' = ""
    /\ log_i' = 1
    /\ log_pc' = "loop"
    /\ UNCHANGED <<pods, fetched, infoVars, schedVars>>

\* the list request fails: the error leaves get_job_logs
GetJobLogsListFails ==
    /\ log_pc = "idle"
    /\ \E name \in JobNames : log_job' = Some(name)
    /\ log_pc' = "raised"
    /\ UNCHANGED <<pods, pod_names, log_i, str_logs, fetched, infoVars, schedVars>>

\* one iteration of the loop over pod_names
GetJobLogsPod ==
    /\ log_pc = "loop"
    /\ log_i <= Len(pod_names)
    /\ \E answer \in LogAnswers :
         /\ str_logs' = Accumulate(str_logs,
                get_job_pod_logs(pod_names[log_i], log_job[1], answer))
         /\ fetched' = Append(fetched, [pod |-> pod_names[log_i], answer |-> answer])
    /\ log_i' = log_i + 1
    /\ UNCHANGED <<pods, log_job, log_pc, pod_names, infoVars, schedVars>>

\* return str_logs
GetJobLogsReturn ==
    /\ log_pc = "loop"
    /\ log_i > Len(pod_names)
    /\ log_pc' = "returned"
    /\ UNCHANGED <<pods, log_job, pod_names, log_i, str_logs, fetched,
                   infoVars, schedVars>>

NextLogs ==
    \/ GetJobLogsList
    \/ GetJobLogsListFails
    \/ GetJobLogsPod
    \/ GetJobLogsReturn

SpecLogs == InitLogs /\ [][NextLogs]_vars

(***************************************************************************)
(* Properties of get_job_logs.                                             *)
(***************************************************************************)
\* the pods of the job in listing order
PodsOfJob == SelectSeq(pods, LAMBDA p : p.job = log_job[1])

Placeholder(name) == "Pod " \o name \o " is being created. Logs will appear shortly"

\* the piece of the i-th pod of the job: its log, or the placeholder naming it
Piece(i) ==
    IF fetched[i].answer.ok THEN fetched[i].answer.text
    ELSE Placeholder(PodsOfJob[i].name)

RECURSIVE PiecesUpTo(_)
PiecesUpTo(n) == IF n = 0 THEN "" ELSE PiecesUpTo(n - 1) \o Piece(n)

\* C7: whichever log requests fail, get_job_logs does not fail for it: it asks
\* for the log of every pod of the job, in listing order, and returns the
\* pieces concatenated in that order with nothing between them, a piece being
\* the pod's log or else the placeholder naming the pod.
C7_LogsOfAllPods ==
    /\ log_pc = "raised" => fetched = <<>>
    /\ log_pc \in {"loop", "returned"} =>
         /\ Len(fetched) = log_i - 1
         /\ Len(fetched) <= Len(PodsOfJob)
         /\ \A i \in 1..Len(fetched) : fetched[i].pod = PodsOfJob[i].name
         /\ str_logs = PiecesUpTo(Len(fetched))
    /\ log_pc = "returned" => Len(fetched) = Len(PodsOfJob)

\* two pods of the job beside a pod of another job; the first log request
\* fails and the second answers a text
C7_Witness ==
    /\ log_pc = "returned"
    /\ Len(pods) > Len(PodsOfJob)
    /\ Len(fetched) = 2
    /\ ~fetched[1].answer.ok
    /\ fetched[2].answer.ok /\ fetched[2].answer.text = "done"
    /\ str_logs = Placeholder(fetched[1].pod) \o "done"

(***************************************************************************)
(* Python's str(), int(), str.replace() and shlex.split() on the values    *)
(* schedule_job applies them to.  A value of resource_dict is an int,      *)
(* [t |-> "int", v |-> n], or a str, [t |-> "str", v |-> characters].      *)
(***************************************************************************)
RECURSIVE DecimalDigits(_)
DecimalDigits(n) ==
    IF n < 10 THEN <<Digit(n)>>
    ELSE DecimalDigits(n \div 10) \o <<Digit(n % 10)>>

str(x) ==
    IF x.t = "str" THEN x.v
    ELSE IF x.v < 0 THEN <<"-">> \o DecimalDigits(-x.v)
    ELSE DecimalDigits(x.v)

Whitespace == {" ", "\t", "\r", "\n"}

RECURSIVE strip(_)
strip(text) ==
    IF text = <<>> THEN text
    ELSE IF Head(text) \in Whitespace THEN strip(Tail(text))
    ELSE IF text[Len(text)] \in Whitespace THEN strip(SubSeq(text, 1, Len(text) - 1))
    ELSE text

IsDigit(c) == \E d \in 1..10 : Digits[d] = c

RECURSIVE DigitsValue(_)
DigitsValue(text) ==
    IF text = <<>> THEN 0
    ELSE DigitsValue(SubSeq(text, 1, Len(text) - 1)) * 10
         + (CHOOSE d \in 0..9 : Digits[d + 1] = text[Len(text)])

\* int(text): [ok |-> FALSE] is ValueError; surrounding whitespace and a sign
\* are accepted, then decimal digits only
int(text) ==
    LET t == strip(text)
        signed == t # <<>> /\ Head(t) \in {"+", "-"}
        body == IF signed THEN Tail(t) ELSE t
    IN IF body = <<>> \/ \E i \in 1..Len(body) : ~IsDigit(body[i])
       THEN [ok |-> FALSE, value |-> 0]
       ELSE [ok |-> TRUE,
             value |-> IF signed /\ Head(t) = "-" THEN -DigitsValue(body)
                       ELSE DigitsValue(body)]

StartsWith(text, prefix) ==
    Len(prefix) <= Len(text) /\ SubSeq(text, 1, Len(prefix)) = prefix

\* text.replace(old, new), old not empty: every occurrence, left to right
RECURSIVE replace(_, _, _)
replace(text, old, new) ==
    IF text = <<>> THEN <<>>
    ELSE IF StartsWith(text, old)
    THEN new \o replace(SubSeq(text, Len(old) + 1, Len(text)), old, new)
    ELSE <<Head(text)>> \o replace(Tail(text), old, new)

Quotes == {"'", "\""}

Escape == "\\"

EscapedQuotes == {"\""}

\* shlex.split(text): shlex in POSIX mode with whitespace_split and no
\* commenters, read to the end of the text.  state is shlex's state (" ", "a",
\* a quote or the escape character); a token is returned when it is not
\* empty or was quoted.  error is the ValueError raised, "" when none.
RECURSIVE shlex_read(_, _, _, _, _, _, _)
shlex_read(text, i, state, escapedstate, token, quoted, tokens) ==
    LET eof == i > Len(text)
        c == IF eof THEN "" ELSE text[i]
        result == IF token # <<>> \/ quoted THEN Append(tokens, token) ELSE tokens
    IN IF state = " " THEN
           IF eof THEN [error |-> "", tokens |-> result]
           ELSE IF c \in Whitespace
           THEN shlex_read(text, i + 1, " ", " ", <<>>, FALSE, result)
           ELSE IF c = Escape
           THEN shlex_read(text, i + 1, c, "a", token, quoted, tokens)
           ELSE IF c \in Quotes
           THEN shlex_read(text, i + 1, c, escapedstate, token, quoted, tokens)
           ELSE shlex_read(text, i + 1, "a", escapedstate, <<c>>, quoted, tokens)
       ELSE IF state \in Quotes THEN
           IF eof THEN [error |-> "No closing quotation", tokens |-> tokens]
           ELSE IF c = state
           THEN shlex_read(text, i + 1, "a", escapedstate, token, TRUE, tokens)
           ELSE IF c = Escape /\ state \in EscapedQuotes
           THEN shlex_read(text, i + 1, c, state, token, TRUE, tokens)
           ELSE shlex_read(text, i + 1, state, escapedstate, Append(token, c),
                           TRUE, tokens)
       ELSE IF state = Escape THEN
           IF eof THEN [error |-> "No escaped character", tokens |-> tokens]
           ELSE LET kept == IF escapedstate \in Quotes /\ c # state
                               /\ c # escapedstate
                            THEN Append(token, state) ELSE token
                IN shlex_read(text, i + 1, escapedstate, escapedstate,
                              Append(kept, c), quoted, tokens)
       ELSE \* state = "a"
           IF eof THEN [error |-> "", tokens |-> result]
           ELSE IF c \in Whitespace
           THEN shlex_read(text, i + 1, " ", " ", <<>>, FALSE, result)
           ELSE IF c \in Quotes
           THEN shlex_read(text, i + 1, c, escapedstate, token, quoted, tokens)
           ELSE IF c = Escape
           THEN shlex_read(text, i + 1, c, "a", token, quoted, tokens)
           ELSE shlex_read(text, i + 1, "a", escapedstate, Append(token, c),
                           quoted, tokens)

shlex_split(text) == shlex_read(text, 1, " ", " ", <<>>, FALSE, <<>>)

(***************************************************************************)
(* schedule_job: the manifest                                              *)
(***************************************************************************)
ResourceKeys == <<"number_of_workers", "memory_limit", "cpu_limit", "gpu_limit">>

EmptyDict == <<>>

\* container_resources with the requests following the limits
container_resources_requesting_limits(memory_limit, cpu_limit) ==
    [limits |-> [memory |-> memory_limit, cpu |-> cpu_limit],
     requests |-> [memory |-> memory_limit, cpu |-> cpu_limit]]

\* "resources" of the container as the dict literal sets it
container_resources(memory_limit, cpu_limit) ==
    [limits |-> [memory |-> memory_limit, cpu |-> cpu_limit],
     requests |-> [memory |-> <<"1", "5", "0", "M", "i">>,
                   cpu |-> <<"2", "5", "0", "m">>]]

\* the dict literal d_job, with the volumes added after the GPU branch
job_manifest(name, number_of_workers, container) ==
    [apiVersion |-> "batch/v1",
     kind |-> "Job",
     metadata |-> [name |-> name],
     spec |->
       [ttlSecondsAfterFinished |-> 20,
        parallelism |-> number_of_workers,
        completions |-> number_of_workers,
        activeDeadlineSeconds |-> 36000,
        template |->
          [metadata |-> [labels |-> ("job-origin" :> "pman"), name |-> name],
           spec |->
             [restartPolicy |-> "Never",
              containers |-> <<container>>,
              volumes |->
                <<[name |-> "gluster-vol1",
                   persistentVolumeClaim |-> [claimName |-> "gluster1"]],
                  [name |-> "swift-credentials",
                   secret |-> [secretName |-> "swift-credentials"]],
                  [name |-> "kubecfg-volume",
                   secret |-> [secretName |-> "kubecfg"]],
                  [mountPath |-> "/local", name |-> "local-volume"]>>]]]]

\* containers[0] of the dict literal
plugin_container(image, command_tokens, name, workers, memory_limit, cpu_limit) ==
    [env |-> <<[name |-> "NUMBER_OF_WORKERS", value |-> workers],
               [name |-> "CPU_LIMIT", value |-> cpu_limit],
               [name |-> "MEMORY_LIMIT", value |-> memory_limit]>>,
     name |-> name,
     image |-> image,
     imagePullSecrets |-> "regcred",
     imagePullPolicy |-> "IfNotPresent",
     command |-> command_tokens,
     resources |-> container_resources(memory_limit, cpu_limit),
     volumeMounts |-> <<[mountPath |-> "/tmp/", name |-> "gluster-vol1"]>>]

\* gpu_container without the two assignments of {} that drop cpu and memory
gpu_container_adding_limit(container, gpus) ==
    [container EXCEPT
        !.resources = [limits |-> container.resources.limits
                                  @@ ("nvidia.com/gpu" :> gpus),
                       requests |-> container.resources.requests]]
    @@ ("securityContext" :>
          [allowPrivilegeEscalation |-> FALSE,
           capabilities |-> [drop |-> <<"ALL">>],
           seLinuxOptions |-> [type |-> "nvidia_container_t"]])

\* the body of if int(gpu_limit) > 0, applied to containers[0]
gpu_container(container, gpus) ==
    [container EXCEPT
        !.resources = [limits |-> ("nvidia.com/gpu" :> gpus),
                       requests |-> EmptyDict]]
    @@ ("securityContext" :>
          [allowPrivilegeEscalation |-> FALSE,
           capabilities |-> [drop |-> <<"ALL">>],
           seLinuxOptions |-> [type |-> "nvidia_container_t"]])

\* schedule_job up to the create request: raised is the exception that ends
\* it ("" when none), d_job the manifest built
build_job(image, command, name, resource_dict, share_dir) ==
    LET replaced == replace(command, <<"/", "s", "h", "a", "r", "e">>, share_dir)
        missing == {k \in 1..Len(ResourceKeys) :
                      ResourceKeys[k] \notin DOMAIN resource_dict}
    IN IF missing # {}
       THEN [raised |-> "KeyError", d_job |-> NONE]
       ELSE
         LET number_of_workers == str(resource_dict["number_of_workers"])
             memory_limit == str(resource_dict["memory_limit"]) \o <<"M", "i">>
             cpu_limit == str(resource_dict["cpu_limit"]) \o <<"m">>
             gpu_limit == str(resource_dict["gpu_limit"])
             split == shlex_split(replaced)
             container == plugin_container(image, split.tokens, name,
                              number_of_workers, memory_limit, cpu_limit)
             gpus == int(gpu_limit)
         IN IF split.error # ""
            THEN [raised |-> "ValueError", d_job |-> NONE]
            ELSE IF ~gpus.ok
            THEN [raised |-> "ValueError", d_job |-> NONE]
            ELSE [raised |-> "",
                  d_job |-> Some(job_manifest(name, number_of_workers,
                                IF gpus.value > 0
                                THEN gpu_container(container, gpus.value)
                                ELSE container))]

(***************************************************************************)
(* The cluster API: create and delete of a job in the project.  A job name *)
(* is unique in the project: a create of an existing name is answered 409  *)
(* and a delete of an absent name 404, both raised by the client as        *)
(* ApiException.                                                           *)
(***************************************************************************)
Returns == [kind |-> "returned", error |-> ""]

Raises(error) == [kind |-> "raised", error |-> error]

create_namespaced_job(body, cluster_jobs) ==
    IF body.metadata.name \in cluster_jobs
    THEN [status |-> 409, jobs |-> cluster_jobs]
    ELSE [status |-> 201, jobs |-> cluster_jobs \cup {body.metadata.name}]

delete_namespaced_job(name, cluster_jobs) ==
    IF name \in cluster_jobs
    THEN [status |-> 200, jobs |-> cluster_jobs \ {name}]
    ELSE [status |-> 404, jobs |-> cluster_jobs]

\* submit with the create request sent before the command and the gpu value
\* are checked
submit_unless_key_error(built, cluster_jobs) ==
    IF built.raised = "KeyError"
    THEN [calls |-> <<>>, outcome |-> Raises(built.raised), jobs |-> cluster_jobs]
    ELSE LET body == IF built.d_job = NONE THEN [metadata |-> [name |-> ""]]
                     ELSE built.d_job[1]
             answer == create_namespaced_job(body, cluster_jobs)
         IN [calls |-> <<[op |-> "create_namespaced_job",
                          name |-> body.metadata.name,
                          body |-> body, status |-> answer.status]>>,
             outcome |-> IF built.raised # "" THEN Raises(built.raised)
                         ELSE IF answer.status = 201 THEN Returns
                         ELSE Raises("ApiException"),
             jobs |-> answer.jobs]

\* the last two lines of schedule_job, reached when nothing was raised before
submit(built, cluster_jobs) ==
    IF built.raised # ""
    THEN [calls |-> <<>>, outcome |-> Raises(built.raised), jobs |-> cluster_jobs]
    ELSE LET answer == create_namespaced_job(built.d_job[1], cluster_jobs)
         IN [calls |-> <<[op |-> "create_namespaced_job",
                          name |-> built.d_job[1].metadata.name,
                          body |-> built.d_job[1], status |-> answer.status]>>,
             outcome |-> IF answer.status = 201 THEN Returns
                         ELSE Raises("ApiException"),
             jobs |-> answer.jobs]

\* remove_job with the ApiException of the delete request swallowed
remove_job_ignoring_not_found(name, cluster_jobs) ==
    LET answer == delete_namespaced_job(name, cluster_jobs)
    IN [calls |-> <<[op |-> "delete_namespaced_job", name |-> name,
                     body |-> [propagation_policy |-> "Background"],
                     status |-> answer.status]>>,
        outcome |-> Returns,
        jobs |-> answer.jobs]

\* remove_job: the delete request with propagation policy Background; an
\* ApiException of the client leaves the method
remove_job(name, cluster_jobs) ==
    LET answer == delete_namespaced_job(name, cluster_jobs)
    IN [calls |-> <<[op |-> "delete_namespaced_job", name |-> name,
                     body |-> [propagation_policy |-> "Background"],
                     status |-> answer.status]>>,
        outcome |-> IF answer.status = 200 THEN Returns ELSE Raises("ApiException"),
        jobs |-> answer.jobs]

(***************************************************************************)
(* The arguments schedule_job is called with.                              *)
(***************************************************************************)
PyInt(n) == [t |-> "int", v |-> n]

PyStr(text) == [t |-> "str", v |-> text]

\* app /share/in
\* app 'a b' /share
\* app 'a
\* app a\
Commands ==
    {<<"a", "p", "p", " ", "/", "s", "h", "a", "r", "e", "/", "i", "n">>,
     <<"a", "p", "p", " ", "'", "a", " ", "b", "'", " ", "/", "s", "h", "a", "r", "e">>,
     <<"a", "p", "p", " ", "'", "a">>,
     <<"a", "p", "p", " ", "a", "\\">>}

\* /data and /o'k
ShareDirs == {<<"/", "d", "a", "t", "a">>, <<"/", "o", "'", "k">>}

CompleteResourceDicts ==
    [number_of_workers : {PyInt(1)}, memory_limit : {PyInt(1024)},
     cpu_limit : {PyInt(2000)},
     gpu_limit : {PyInt(0), PyInt(1), PyStr(<<"2">>), PyStr(<<"x">>)}]
    \cup
    [number_of_workers : {PyInt(2)}, memory_limit : {PyInt(0)},
     cpu_limit : {PyInt(250)}, gpu_limit : {PyInt(0), PyInt(1)}]

\* a dict with one of the four keys missing
ResourceDicts ==
    CompleteResourceDicts
    \cup {[k \in {ResourceKeys[i] : i \in 1..Len(ResourceKeys)} \ {missing} |->
             IF k = "gpu_limit" THEN PyInt(0) ELSE PyInt(1)] :
            missing \in {ResourceKeys[i] : i \in 1..Len(ResourceKeys)}}

ScheduleRequests ==
    [op : {"schedule_job"}, image : {"fnndsc/pl-simpledsapp"}, command : Commands,
     name : JobNames, resource_dict : ResourceDicts, share_dir : ShareDirs]

(***************************************************************************)
(* SpecSched: schedule_job and remove_job against the cluster.             *)
(***************************************************************************)
InitSched ==
    /\ req = NONE
    /\ outcome = NONE
    /\ jobs \in SUBSET JobNames
    /\ calls = <<>>
    /\ removed = {}
    /\ InfoIdle
    /\ LogIdle

schedule_job(image, command, name, resource_dict, share_dir, cluster_jobs) ==
    submit(build_job(image, command, name, resource_dict, share_dir), cluster_jobs)

ScheduleJob(r) ==
    \E done \in {schedule_job(r.image, r.command, r.name, r.resource_dict,
                              r.share_dir, jobs)} :
       /\ req' = Some(r)
       /\ outcome' = Some(done.outcome)
       /\ calls' = done.calls
       /\ jobs' = done.jobs
       /\ removed' = removed \ done.jobs
       /\ UNCHANGED <<infoVars, logVars>>

RemoveJob(name) ==
    \E done \in {remove_job(name, jobs)} :
       /\ req' = Some([op |-> "remove_job", name |-> name])
       /\ outcome' = Some(done.outcome)
       /\ calls' = done.calls
       /\ jobs' = done.jobs
       /\ removed' = IF done.outcome = Returns THEN removed \cup {name} ELSE removed
       /\ UNCHANGED <<infoVars, logVars>>

\* the cluster deletes a finished job by itself (ttlSecondsAfterFinished)
JobExpires ==
    /\ \E name \in jobs : jobs' = jobs \ {name}
    /\ UNCHANGED <<req, outcome, calls, removed, infoVars, logVars>>

NextSched ==
    \/ \E r \in ScheduleRequests : ScheduleJob(r)
    \/ \E name \in JobNames : RemoveJob(name)
    \/ JobExpires

SpecSched == InitSched /\ [][NextSched]_vars

(***************************************************************************)
(* Properties of schedule_job and remove_job.                              *)
(***************************************************************************)
Scheduling == req # NONE /\ req[1].op = "schedule_job"

Removing == req # NONE /\ req[1].op = "remove_job"

Submitted == Scheduling /\ calls # <<>>

\* the first container of the manifest the create request carried
Primary == calls[1].body.spec.template.spec.containers[1]

HasAllKeys(resource_dict) ==
    \A i \in 1..Len(ResourceKeys) : ResourceKeys[i] \in DOMAIN resource_dict

AllDigits(text) ==
    text # <<>> /\ \A i \in 1..Len(text) : \E d \in 1..10 : Digits[d] = text[i]

\* the number a value of the resource spec stands for, -1 when it is not one
NumberOf(x) ==
    IF x.t = "int" THEN x.v
    ELSE IF AllDigits(x.v) THEN Number(x.v, 1, Len(x.v))
    ELSE -1

\* text is the decimal form of n followed by the unit
IsQuantity(text, n, unit) ==
    LET k == Len(text) - Len(unit)
    IN /\ k >= 1
       /\ SubSeq(text, k + 1, Len(text)) = unit
       /\ AllDigits(SubSeq(text, 1, k))
       /\ (k > 1 => text[1] # "0")
       /\ Number(text, 1, k) = n

\* C5: with gpu_limit = N > 0 the primary container of the submitted manifest
\* has the limits {nvidia.com/gpu: N} and nothing else, empty requests, and a
\* security context that disallows privilege escalation, drops all
\* capabilities and sets the type nvidia_container_t.
C5_GpuOverride ==
    (/\ Submitted
     /\ HasAllKeys(req[1].resource_dict)
     /\ NumberOf(req[1].resource_dict["gpu_limit"]) > 0) =>
        /\ DOMAIN Primary.resources.limits = {"nvidia.com/gpu"}
        /\ Primary.resources.limits["nvidia.com/gpu"]
             = NumberOf(req[1].resource_dict["gpu_limit"])
        /\ DOMAIN Primary.resources.requests = {}
        /\ "securityContext" \in DOMAIN Primary
        /\ Primary.securityContext.allowPrivilegeEscalation = FALSE
        /\ Primary.securityContext.capabilities.drop = <<"ALL">>
        /\ Primary.securityContext.seLinuxOptions.type = "nvidia_container_t"

\* a job with two GPUs, given as the text "2", was created
C5_Witness ==
    /\ Submitted
    /\ req[1].resource_dict["gpu_limit"] = PyStr(<<"2">>)
    /\ outcome[1] = Returns
    /\ Primary.resources.limits["nvidia.com/gpu"] = 2

\* C6: with gpu_limit = 0 the primary container of the submitted manifest has
\* the limits cpu = cpu_limit followed by "m" and memory = memory_limit
\* followed by "Mi" and no GPU key, the requests memory 150Mi and cpu 250m
\* whatever the limits are, and no security context.
C6_CpuMemoryLimits ==
    (/\ Submitted
     /\ HasAllKeys(req[1].resource_dict)
     /\ NumberOf(req[1].resource_dict["gpu_limit"]) = 0) =>
        /\ DOMAIN Primary.resources.limits = {"cpu", "memory"}
        /\ IsQuantity(Primary.resources.limits.cpu,
                      NumberOf(req[1].resource_dict["cpu_limit"]), <<"m">>)
        /\ IsQuantity(Primary.resources.limits.memory,
                      NumberOf(req[1].resource_dict["memory_limit"]), <<"M", "i">>)
        /\ DOMAIN Primary.resources.requests = {"cpu", "memory"}
        /\ Primary.resources.requests.memory = <<"1", "5", "0", "M", "i">>
        /\ Primary.resources.requests.cpu = <<"2", "5", "0", "m">>
        /\ "securityContext" \notin DOMAIN Primary

\* limits above the fixed requests were submitted
C6_Witness ==
    /\ Submitted
    /\ req[1].resource_dict["gpu_limit"] = PyInt(0)
    /\ req[1].resource_dict["cpu_limit"] = PyInt(2000)
    /\ Primary.resources.limits.cpu = <<"2", "0", "0", "0", "m">>
    /\ Primary.resources.limits.memory = <<"1", "0", "2", "4", "M", "i">>
    /\ Primary.resources.requests.cpu = <<"2", "5", "0", "m">>

\* the causes of a failed build: a missing field, a gpu value that is no
\* number, a command whose quotes do not pair up once /share is replaced
QuoteCount(text) == Cardinality({i \in 1..Len(text) : text[i] = "'"})

BadRequest(r) ==
    \/ ~HasAllKeys(r.resource_dict)
    \/ NumberOf(r.resource_dict["gpu_limit"]) < 0
    \/ QuoteCount(replace(r.command, <<"/", "s", "h", "a", "r", "e">>,
                          r.share_dir)) % 2 = 1

BuildFails(r) ==
    build_job(r.image, r.command, r.name, r.resource_dict, r.share_dir).raised # ""

\* C8: when building the manifest fails, schedule_job raises before any
\* request is sent: no create request is issued and the jobs of the cluster
\* are the same after the call as before.
C8_FailFast ==
    /\ [](Scheduling /\ (BadRequest(req[1]) \/ BuildFails(req[1])) =>
            /\ calls = <<>>
            /\ outcome[1].kind = "raised"
            /\ outcome[1].error \in {"KeyError", "ValueError"})
    /\ [][(/\ req' # NONE
           /\ req'[1].op = "schedule_job"
           /\ ScheduleJob(req'[1])
           /\ (BadRequest(req'[1]) \/ BuildFails(req'[1]))) =>
             (calls' = <<>> /\ jobs' = jobs)]_vars

\* the share directory brings an unpaired quote into a command that had none,
\* for a job name that is free in the cluster
C8_Witness ==
    /\ Scheduling
    /\ QuoteCount(req[1].command) = 0
    /\ QuoteCount(req[1].share_dir) = 1
    /\ HasAllKeys(req[1].resource_dict)
    /\ NumberOf(req[1].resource_dict["gpu_limit"]) >= 0
    /\ req[1].name \notin jobs
    /\ outcome[1] = Raises("ValueError")
    /\ calls = <<>>

\* C4 as stated: remove_job on a job that is absent from the cluster succeeds
\* without an error and leaves the cluster unchanged.
C4_RemoveAbsentSucceeds ==
    (Removing /\ calls[1].status = 404) => outcome[1] = Returns

\* C4: remove_job on a job that is absent from the cluster leaves the cluster
\* unchanged and does not succeed: the not-found error of the delete request
\* is raised to the caller.  On a job that exists it succeeds and the job is
\* gone.
C4_RemoveAbsentRaises ==
    /\ [](Removing =>
            /\ Len(calls) = 1
            /\ calls[1].op = "delete_namespaced_job"
            /\ calls[1].name = req[1].name
            /\ req[1].name \notin jobs
            /\ calls[1].status \in {200, 404}
            /\ calls[1].status = 404 <=> outcome[1] = Raises("ApiException")
            /\ calls[1].status = 200 <=> outcome[1] = Returns)
    /\ [][\A name \in JobNames :
            (RemoveJob(name) /\ name \notin jobs) =>
               (jobs' = jobs /\ outcome'[1] = Raises("ApiException"))]_vars

\* a second remove_job of a job an earlier remove_job deleted
C4_Witness ==
    /\ Removing
    /\ req[1].name \in removed
    /\ req[1].name \notin jobs
    /\ calls[1].status = 404
    /\ outcome[1] = Raises("ApiException")

====
